---- MODULE Spec2Model ----
(***************************************************************************)
(* Model of pushbutan (src/src/pushbutan): the Pushbutan client that       *)
(* dispatches GitHub Actions workflows, correlates the run a dispatch      *)
(* produced, waits for it and scrapes instance details from its logs.      *)
(***************************************************************************)
EXTENDS Integers, Sequences, FiniteSets, TLC

(***************************************************************************)
(* Bounds of the model.                                                    *)
(***************************************************************************)
\* longest log text, in lines, that the log-extraction specification builds
MaxLines == 4

(***************************************************************************)
(* Outcomes of a call: a returned value or a raised PushbutanError.  A     *)
(* message is the sequence of the literal pieces it is formatted from, so  *)
(* that wrapping (f"Failed to ...: {e}") keeps the wrapped text inside.    *)
(***************************************************************************)
NotCalled == [kind |-> "none"]
Return(v) == [kind |-> "return", value |-> v]
\* an error whose text drops what it was raised for
RaiseGeneric(m) == [kind |-> "raise", message |-> <<"Operation failed">>]
Raise(m) == [kind |-> "raise", message |-> m]
Returned(o) == o.kind = "return"
Raised(o) == o.kind = "raise"
Says(o, piece) == Raised(o) /\ \E i \in 1..Len(o.message) : o.message[i] = piece

Max(S) == CHOOSE x \in S : \A y \in S : y <= x
Min(S) == CHOOSE x \in S : \A y \in S : x <= y

(***************************************************************************)
(* Log text.  A text is a sequence of characters; the literal markers the  *)
(* patterns of extract_instance_details look for, and the enum values, are *)
(* single symbols of the alphabet.                                         *)
(***************************************************************************)
NL == "\n"
SP == " "
TS == "2025-01-01T00:00:00Z"
Space == {SP, NL}
Hex == {"0", "1", "a"}
Digit == {"0", "1"}
Platforms == {"linux-64", "win-64"}
InstanceTypes == {"g4dn.4xlarge", "p3.2xlarge"}
Alphabet ==
    {NL, SP, TS, "z", ".", "i-", "[ q", "q ]",
     "INSTANCE_IDS:", "PLATFORM:", "INSTANCE_TYPE:"}
    \cup Hex \cup Digit \cup Platforms \cup InstanceTypes
\* what the pattern character "." matches: anything but a newline
AnyChar == Alphabet \ {NL}

Fields == <<"instance_id", "ip_address", "arch", "instance_type">>
FieldSet == {Fields[i] : i \in 1..Len(Fields)}

\* a search that found nothing
NoMatch == <<>>

\* the position after the longest run of characters of cls starting at p
\* (a greedy "+" or "*" over a character class)
RECURSIVE RunEnd(_, _, _)
RunEnd(t, p, cls) ==
    IF p <= Len(t) /\ t[p] \in cls THEN RunEnd(t, p + 1, cls) ELSE p

\* the position after n groups \d+ separated by "\." starting at p, 0 if the
\* text does not match there
RECURSIVE DottedEnd(_, _, _)
DottedEnd(t, p, n) ==
    LET e == RunEnd(t, p, Digit) IN
    IF e = p THEN 0
    ELSE IF n = 1 THEN e
    ELSE IF e <= Len(t) /\ t[e] = "." THEN DottedEnd(t, e + 1, n - 1)
    ELSE 0

\* INSTANCE_IDS:\s+(i-[a-f0-9]+) matched at position p: the captured group
MatchInstanceId(t, p) ==
    IF p > Len(t) \/ t[p] # "INSTANCE_IDS:" THEN NoMatch
    ELSE LET q == RunEnd(t, p + 1, Space) IN
         IF q = p + 1 \/ q > Len(t) \/ t[q] # "i-" THEN NoMatch
         ELSE LET r == RunEnd(t, q + 1, Hex) IN
              IF r = q + 1 THEN NoMatch ELSE SubSeq(t, q, r - 1)

\* \[ "(\d+\.\d+\.\d+\.\d+)" \] matched at position p
MatchIp(t, p) ==
    IF p > Len(t) \/ t[p] # "[ q" THEN NoMatch
    ELSE LET e == DottedEnd(t, p + 1, 4) IN
         IF e = 0 \/ e > Len(t) \/ t[e] # "q ]" THEN NoMatch
         ELSE SubSeq(t, p + 1, e - 1)

\* a pattern with one literal blank in the place of \s+
MatchEnumOneBlank(t, p, marker, values) ==
    IF p + 2 > Len(t) \/ t[p] # marker \/ t[p + 1] # SP THEN NoMatch
    ELSE IF t[p + 2] \notin values THEN NoMatch
    ELSE <<t[p + 2]>>

\* marker\s+(v1|v2) matched at position p
MatchEnum(t, p, marker, values) ==
    IF p > Len(t) \/ t[p] # marker THEN NoMatch
    ELSE LET q == RunEnd(t, p + 1, Space) IN
         IF q = p + 1 \/ q > Len(t) \/ t[q] \notin values THEN NoMatch
         ELSE <<t[q]>>

\* the part of a field's pattern after its leading ".*", matched at p
MatchTail(field, t, p) ==
    CASE field = "instance_id" -> MatchInstanceId(t, p)
      [] field = "ip_address" -> MatchIp(t, p)
      [] field = "arch" -> MatchEnum(t, p, "PLATFORM:", Platforms)
      [] field = "instance_type" -> MatchEnum(t, p, "INSTANCE_TYPE:", InstanceTypes)

\* the positions where ".*", started at s, can stop with the tail matching
DotStarStops(field, t, s) ==
    {e \in s..RunEnd(t, s, AnyChar) : MatchTail(field, t, e) # NoMatch}

\* ".*" is greedy: of the positions where the tail matches it keeps the last
GreedyDotStar(stops) == Max(stops)

\* re.search(r'.*<tail>', t, re.MULTILINE).group(1): the leftmost start
\* position at which the pattern matches, and there the greedy match
re_search(field, t) ==
    LET starts == {s \in 1..Len(t) + 1 : DotStarStops(field, t, s) # {}} IN
    IF starts = {} THEN NoMatch
    ELSE MatchTail(field, t, GreedyDotStar(DotStarStops(field, t, Min(starts))))

MsgNoInstanceId == "Could not find instance ID in workflow logs"
MsgNoIp == "Could not find IP address in workflow logs"
MsgNoPlatform == "Could not find platform in workflow logs"
MsgNoInstanceType == "Could not find instance type in workflow logs"

\* a mutation that forgets the last check and returns what it has
extract_without_type_check(text) ==
    LET instance_id_match == re_search("instance_id", text)
        ip_match == re_search("ip_address", text)
        platform_match == re_search("arch", text)
    IN  IF instance_id_match = NoMatch THEN Raise(<<MsgNoInstanceId>>)
        ELSE IF ip_match = NoMatch THEN Raise(<<MsgNoIp>>)
        ELSE IF platform_match = NoMatch THEN Raise(<<MsgNoPlatform>>)
        ELSE Return([instance_id |-> instance_id_match,
                     ip_address |-> ip_match,
                     arch |-> platform_match])

extract_instance_details(text) ==
    LET instance_id_match == re_search("instance_id", text)
        ip_match == re_search("ip_address", text)
        platform_match == re_search("arch", text)
        instance_type_match == re_search("instance_type", text)
    IN  IF instance_id_match = NoMatch THEN Raise(<<MsgNoInstanceId>>)
        ELSE IF ip_match = NoMatch THEN Raise(<<MsgNoIp>>)
        ELSE IF platform_match = NoMatch THEN Raise(<<MsgNoPlatform>>)
        ELSE IF instance_type_match = NoMatch THEN Raise(<<MsgNoInstanceType>>)
        ELSE Return([instance_id |-> instance_id_match,
                     ip_address |-> ip_match,
                     arch |-> platform_match,
                     instance_type |-> instance_type_match])

(***************************************************************************)
(* The lines a workflow log is made of.  Each line records, next to its    *)
(* text, the field it carries and the values written on it in document     *)
(* order, which is what the run printed, independently of any pattern.     *)
(***************************************************************************)
IdA == <<"i-", "0", "a">>
IdB == <<"i-", "a", "1">>
IpA == <<"1", "0", ".", "0", ".", "0", ".", "1">>
IpB == <<"0", ".", "1", ".", "1", ".", "0">>

Line(text, field, values) == [text |-> text, field |-> field, values |-> values]

LineId == Line(<<"INSTANCE_IDS:", SP>> \o IdA, "instance_id", <<IdA>>)
LineIdTs == Line(<<TS, SP, "INSTANCE_IDS:", SP>> \o IdB, "instance_id", <<IdB>>)
LineIdTwice ==
    Line(<<"INSTANCE_IDS:", SP>> \o IdA \o <<SP, "INSTANCE_IDS:", SP>> \o IdB,
         "instance_id", <<IdA, IdB>>)
LineIdBad == Line(<<"INSTANCE_IDS:", SP, "z">>, "none", <<>>)
LineIp == Line(<<"[ q">> \o IpA \o <<"q ]">>, "ip_address", <<IpA>>)
LineIpTs == Line(<<TS, SP, "[ q">> \o IpB \o <<"q ]">>, "ip_address", <<IpB>>)
LinePlatform == Line(<<"PLATFORM:", SP, "linux-64">>, "arch", <<<<"linux-64">>>>)
LinePlatformTs ==
    Line(<<TS, SP, "PLATFORM:", SP, SP, "win-64">>, "arch", <<<<"win-64">>>>)
LineType ==
    Line(<<"INSTANCE_TYPE:", SP, "g4dn.4xlarge">>, "instance_type",
         <<<<"g4dn.4xlarge">>>>)
LineTypeTs ==
    Line(<<TS, SP, "INSTANCE_TYPE:", SP, "p3.2xlarge">>, "instance_type",
         <<<<"p3.2xlarge">>>>)
LineNoise == Line(<<TS, SP, "z">>, "none", <<>>)

LogLines ==
    {LineId, LineIdTs, LineIdTwice, LineIdBad, LineIp, LineIpTs, LinePlatform,
     LinePlatformTs, LineType, LineTypeTs, LineNoise}

\* the logs a finished run is let to have in the command model: a complete
\* one, one whose instance type line is missing, and an empty one
SampleLogs ==
    { <<LineIdTs, LineIp, LinePlatform, LineType>>,
      <<LineId, LineIpTs, LinePlatformTs>>,
      <<>> }

\* '\n'.join(...) of the lines' texts
RECURSIVE JoinLines(_)
JoinLines(ls) ==
    IF ls = <<>> THEN <<>>
    ELSE IF Len(ls) = 1 THEN ls[1].text
    ELSE ls[1].text \o <<NL>> \o JoinLines(Tail(ls))

(***************************************************************************)
(* The commands.  One command runs at a time: it constructs the client,    *)
(* dispatches its workflow, correlates the run, waits for it and, for      *)
(* start, downloads the logs and extracts the instance details.            *)
(***************************************************************************)
\* latest instant of the clock read by datetime.now
MaxTime == 1
\* most runs the platform lists for the workflow
MaxRuns == 2
\* how far behind the moment of creation the platform may stamp created_at
MaxSkew == 0
\* largest timeout_minutes a caller passes to wait_for_instance
MaxTimeoutMinutes == 2
\* most whole poll intervals one status fetch may take
MaxLag == 1

\* range(20) and max_attempts = 20
MaxAttempts == 20
\* time.sleep(30) of the wait loop
PollSeconds == 30
SecondsPerMinute == 60

Commands == {"start", "stop", "codesign"}
Me == "me"
Other == "other"
NoActor == "no actor"
NoUser == "no user"
NoToken == ""
\* None: no token argument, no GITHUB_TOKEN in the environment
Unset == "<unset>"
TokenValues == {Unset, NoToken, "ghp_token"}
\* a test that takes only None for a missing token
TruthyUnlessNone(t) == t # Unset
\* not (not self.token)
Truthy(t) == t \notin {Unset, NoToken}
\* token or os.getenv("GITHUB_TOKEN")
Credential(explicit, env) == IF Truthy(explicit) THEN explicit ELSE env
Credentials == {Credential(e, v) : e \in TokenValues, v \in TokenValues}
NoTime == -1
NoExit == -1
NoTimeout == -1

RemoteFailure == "remote call failed"
AttributeErrorText == "'NoneType' object has no attribute 'login'"
MsgNotFound == "Could not find the triggered workflow run after multiple attempts"
MsgNoToken == "GitHub token not provided and GITHUB_TOKEN env var not set"
MsgUser == "Failed to get authenticated user: "
MsgGetRun == "Failed to get workflow run: "
MsgGetLogs == "Failed to get workflow run logs: "
MsgConclusion == "Workflow failed with conclusion: "
MsgTimedOut == "Timed out after "
MsgListWorkflows == "Failed to list workflows: "
MsgDownload == "Failed to download artifact: "
MsgNoArtifact == "Could not find artifact 'signed-packages' in workflow run"
\* os.makedirs or open(artifact_path, 'wb') raises
WriteFailure == "cannot write the artifact"

\* the text the outer except clause of a dispatching operation puts in front
TriggerPrefix(c) ==
    IF c = "stop" THEN "Failed to trigger stop workflow: "
    ELSE "Failed to trigger workflow: "

\* a caller that leaves parse_logs at its default in every command
ParseLogsAlways(c) == TRUE

\* cli.py passes parse_logs=True for start and parse_logs=False otherwise
ParseLogs(c) == c = "start"

CallKinds ==
    {"user", "dispatch", "list", "get_run", "logs", "workflows", "artifacts",
     "download"}

(***************************************************************************)
(* The inputs of the dispatch calls.                                       *)
(***************************************************************************)
NoInputs == [none |-> TRUE]
Branches == {"main", "dev"}
Lifetimes == {"24", "1"}

\* inputs = {...} of start_dev_instance
StartInputs(arch, instance_type, cuda_version, image_id, branch, lifetime) ==
    [arch |-> arch, instance_type |-> instance_type,
     cuda_version |-> cuda_version, image_id |-> image_id, branch |-> branch,
     lifetime |-> lifetime]

trigger_linux_gpu_instance(instance_type, branch, lifetime) ==
    StartInputs("linux-64", instance_type, "12.4", "latest", branch, lifetime)

\* a Windows start that asks for the CUDA of the Linux one
trigger_windows_with_cuda(instance_type, branch, lifetime) ==
    StartInputs("win-64", instance_type, "12.4", "latest", branch, lifetime)

trigger_windows_gpu_instance(instance_type, branch, lifetime) ==
    StartInputs("win-64", instance_type, "none", "latest", branch, lifetime)

\* what the caller of a start operation may pass
StartArgs ==
    [windows : BOOLEAN, instance_type : InstanceTypes, branch : Branches,
     lifetime : Lifetimes]

\* package_spec = None
NoPackage == "no package"

\* the arguments of a command run with its options left at their defaults
DefaultArgs(c) ==
    CASE c = "start" ->
           [windows |-> FALSE, instance_type |-> "g4dn.4xlarge",
            branch |-> "main", lifetime |-> "24"]
      [] c = "stop" -> [instance_id |-> "i-0a"]
      [] c = "codesign" ->
           [cert |-> "prod", org_channel |-> "channel",
            package_spec |-> "^.*$", generate_repodata |-> FALSE]
      [] OTHER -> [run_id |-> 1]

\* the "inputs" of the POST .../dispatches of each operation
DispatchInputs(c, a) ==
    CASE c = "start" ->
           IF a.windows
           THEN trigger_windows_gpu_instance(a.instance_type, a.branch, a.lifetime)
           ELSE trigger_linux_gpu_instance(a.instance_type, a.branch, a.lifetime)
      [] c = "stop" -> [instance_ids |-> a.instance_id]
      [] c = "codesign" ->
           [cert |-> a.cert, org_channel |-> a.org_channel,
            package_spec |->
                IF a.package_spec = NoPackage THEN "" ELSE a.package_spec,
            generate_repodata_files |-> a.generate_repodata]

\* --download-dir of the codesign command: left out, empty, or a directory
DownloadDirs == {Unset, "", "signed"}
\* the command has not come to read the option
NotRead == "<not read>"

\* the second invocation, when there is none
NoPeer == [pc |-> "absent"]

\* "waiting" stands for a status outside queued, in_progress, completed
NonTerminal == {"in_progress", "waiting"}
Conclusions == {"success", "failure", "cancelled", "None"}
Observations ==
    {[status |-> s, conclusion |-> "None"] : s \in NonTerminal}
    \cup {[status |-> "completed", conclusion |-> c] : c \in Conclusions}
NoPoll == [status |-> "none", conclusion |-> "None"]

VARIABLES
    cmd,              \* the command that runs
    timeout_minutes,  \* the bound passed to wait_for_instance
    token,            \* token or os.getenv("GITHUB_TOKEN")
    pc,               \* where the command is
    username,         \* self.username
    constructed,      \* outcome of Pushbutan()
    now,              \* the clock datetime.now reads
    start_time,       \* the dispatching operation's start_time
    attempt,          \* the attempt counter of the correlation loop
    calls,            \* remote calls issued so far, by kind
    scanned,          \* listings scanned to their end without a match
    dispatch_at,      \* the instant the dispatch call was issued
    pending,          \* the platform accepted a dispatch and owes its run
    runs,             \* the platform's runs of the workflow, in listing order
    triggered,        \* outcome of the dispatching operation
    elapsed,          \* time.time() - start_time of wait_for_instance
    last_poll,        \* status and conclusion last fetched by the wait loop
    completed_polls,  \* polls that observed status completed
    waited,           \* outcome of wait_for_instance
    lines,            \* the lines the run has written to its log, as printed
    logs,             \* the combined log text handed to the extraction
    details,          \* outcome of extract_instance_details
    exit_code,        \* the command's exit status
    surface,          \* who calls the library: the cli or the tool server
    args,             \* the arguments the caller supplied
    inputs,           \* the inputs the dispatch call carried
    peer,             \* a second invocation by the same identity
    reply,            \* the payload a tool returned
    download_dir,     \* the --download-dir the codesign command was given
    artifact          \* outcome of download_workflow_artifact

callerVars == <<surface, args, peer, reply>>
idVars == <<cmd, token, username, constructed, callerVars>>
clientVars == <<idVars, timeout_minutes>>
corrVars == <<start_time, attempt, scanned, dispatch_at, triggered, inputs>>
platVars == <<now, pending, runs>>
waitVars == <<elapsed, last_poll, completed_polls, waited>>
logVars == <<lines, logs, details>>
loadVars == <<download_dir, artifact>>
vars ==
    <<cmd, timeout_minutes, token, pc, username, constructed, now, start_time,
      attempt, calls, scanned, dispatch_at, pending, runs, triggered, elapsed,
      last_poll, completed_polls, waited, lines, logs, details, exit_code,
      surface, args, inputs, peer, reply, download_dir, artifact>>

Called(kind) == calls' = [calls EXCEPT ![kind] = @ + 1]

Init ==
    /\ cmd \in Commands
    /\ timeout_minutes = NoTimeout
    /\ token \in Credentials
    /\ pc = "construct"
    /\ username = NoUser
    /\ constructed = NotCalled
    /\ now = 0
    /\ start_time = NoTime
    /\ attempt = 0
    /\ calls = [k \in CallKinds |-> 0]
    /\ scanned = 0
    /\ dispatch_at = NoTime
    /\ pending = FALSE
    /\ runs = <<>>
    /\ triggered = NotCalled
    /\ elapsed = 0
    /\ last_poll = NoPoll
    /\ completed_polls = 0
    /\ waited = NotCalled
    /\ lines = <<>>
    /\ logs = <<>>
    /\ details = NotCalled
    /\ exit_code = NoExit
    /\ surface = "cli"
    /\ args = DefaultArgs(cmd)
    /\ inputs = NoInputs
    /\ peer = NoPeer
    /\ reply = NotCalled
    /\ download_dir = NotRead
    /\ artifact = NotCalled

\* a client constructed with a token
ReadyClient ==
    /\ token = "ghp_token"
    /\ username = Me
    /\ constructed = Return(Me)
    /\ calls = [k \in CallKinds |-> IF k = "user" THEN 1 ELSE 0]

\* nothing has been dispatched, listed, polled or read yet
Untouched ==
    /\ timeout_minutes = NoTimeout
    /\ now = 0
    /\ start_time = NoTime
    /\ attempt = 0
    /\ scanned = 0
    /\ dispatch_at = NoTime
    /\ pending = FALSE
    /\ runs = <<>>
    /\ triggered = NotCalled
    /\ inputs = NoInputs
    /\ elapsed = 0
    /\ last_poll = NoPoll
    /\ completed_polls = 0
    /\ waited = NotCalled
    /\ lines = <<>>
    /\ logs = <<>>
    /\ details = NotCalled
    /\ exit_code = NoExit
    /\ reply = NotCalled
    /\ download_dir = NotRead
    /\ artifact = NotCalled

\* an except clause that lets the operation go on with the correlation
CarryOn == pc' = "correlate" /\ exit_code' = exit_code

\* except PushbutanError: click.echo(...); exit(1) in the commands; a tool
\* or a direct caller of the library has no such clause around the call and
\* the exception leaves it
Fail ==
    IF surface = "cli"
    THEN pc' = "exit" /\ exit_code' = 1
    ELSE pc' = "raised" /\ exit_code' = exit_code

\* stop_instance dispatches first and reads the clock afterwards; the other
\* two operations read the clock first
FirstStep(c) ==
    CASE c = "stop" -> "dispatch"
      [] c = "details" -> "get_instance_details"
      [] c = "status" -> "get_job_status"
      [] c = "workflows" -> "list_workflows"
      [] OTHER -> "record"
AfterRecord(c) == IF c = "stop" THEN "correlate" ELSE "dispatch"
\* an operation that posts the dispatch again after it was accepted
DispatchAgain(c) == "dispatch"
AfterDispatch(c) == IF c = "stop" THEN "record" ELSE "correlate"

\* Pushbutan(): the token check and users.get_authenticated
Construct ==
    /\ pc = "construct"
    /\ \/ /\ ~Truthy(token)
          /\ constructed' = Raise(<<MsgNoToken>>)
          /\ Fail
          /\ UNCHANGED <<username, calls>>
       \/ /\ Truthy(token)
          /\ Called("user")
          /\ \/ /\ constructed' = Raise(<<MsgUser, RemoteFailure>>)
                /\ Fail
                /\ UNCHANGED username
             \/ /\ constructed' = Return(Me)
                /\ username' = Me
                /\ pc' = FirstStep(cmd)
                /\ UNCHANGED exit_code
    /\ UNCHANGED <<cmd, timeout_minutes, token, callerVars>>
    /\ UNCHANGED <<corrVars, platVars, waitVars, logVars, loadVars>>

\* start_time = datetime.now(timezone.utc)
RecordStartTime ==
    /\ pc = "record"
    /\ start_time' = now
    /\ pc' = AfterRecord(cmd)
    /\ UNCHANGED <<clientVars, attempt, calls, scanned, dispatch_at, triggered>>
    /\ UNCHANGED <<inputs, platVars, waitVars, logVars, loadVars, exit_code>>

\* self.gh.request("POST", ".../dispatches", ...)
Dispatch ==
    /\ pc = "dispatch"
    /\ Called("dispatch")
    /\ inputs' = DispatchInputs(cmd, args)
    /\ \/ /\ triggered' = Raise(<<TriggerPrefix(cmd), RemoteFailure>>)
          /\ Fail
          /\ UNCHANGED <<dispatch_at, pending>>
       \/ /\ dispatch_at' = now
          /\ pending' = TRUE
          /\ pc' = AfterDispatch(cmd)
          /\ UNCHANGED <<triggered, exit_code>>
    /\ UNCHANGED <<clientVars, start_time, attempt, scanned, now, runs>>
    /\ UNCHANGED <<waitVars, logVars, loadVars>>

\* a comparison that could tell which dispatch a run came from
MatchesOwnDispatch(run, user, since) ==
    run.actor = user /\ run.created_at >= since /\ run.origin = "self"

\* a comparison that forgets the lower bound on created_at
MatchesActorOnly(run, user, since) == run.actor = user

\* run.actor.login == self.username and run.created_at >= start_time
Matches(run, user, since) == run.actor = user /\ run.created_at >= since

\* for run in runs: ... return on the first match; reading .login of a run
\* without actor raises
RECURSIVE ScanRuns(_, _, _)
ScanRuns(rs, user, since) ==
    IF rs = <<>> THEN [kind |-> "none"]
    ELSE IF Head(rs).actor = NoActor THEN [kind |-> "error"]
    ELSE IF Matches(Head(rs), user, since) THEN [kind |-> "match", run |-> Head(rs)]
    ELSE ScanRuns(Tail(rs), user, since)

\* a loop that goes on listing after it has found its run
KeepListing == pc' = "correlate" /\ timeout_minutes' = timeout_minutes

\* the command goes on to pb.wait_for_instance(result["run_id"], ...) with
\* the bound its caller chose; a tool or a direct caller of the library has
\* the result of the operation returned to it
StartWait ==
    IF surface = "cli"
    THEN /\ pc' = "wait"
         /\ timeout_minutes' \in 0..MaxTimeoutMinutes
    ELSE /\ pc' = "returned"
         /\ timeout_minutes' = timeout_minutes

\* what the dispatching operation returns for the run it found
TriggerResult(c, run) ==
    IF c = "start"
    THEN [run_id |-> run.id, created_at |-> run.created_at]
    ELSE [run_id |-> run.id]

\* one attempt of the correlation loop: fetch the listing, scan it, and
\* after the last attempt raise (codesign first lists the runs once more)
CorrelateAttempt ==
    /\ pc = "correlate"
    /\ attempt < MaxAttempts
    /\ attempt' = attempt + 1
    /\ Called("list")
    /\ \/ /\ triggered' = Raise(<<TriggerPrefix(cmd), RemoteFailure>>)
          /\ Fail
          /\ UNCHANGED <<scanned, timeout_minutes>>
       \/ LET found == ScanRuns(runs, username, start_time) IN
          CASE found.kind = "error" ->
                 /\ triggered' = Raise(<<TriggerPrefix(cmd), AttributeErrorText>>)
                 /\ Fail
                 /\ UNCHANGED <<scanned, timeout_minutes>>
            [] found.kind = "match" ->
                 /\ triggered' = Return(TriggerResult(cmd, found.run))
                 /\ StartWait
                 /\ UNCHANGED <<scanned, exit_code>>
            [] found.kind = "none" ->
                 /\ scanned' = scanned + 1
                 /\ UNCHANGED timeout_minutes
                 /\ IF attempt + 1 < MaxAttempts
                    THEN UNCHANGED <<triggered, pc, exit_code>>
                    ELSE IF cmd = "codesign"
                    THEN pc' = "diagnose" /\ UNCHANGED <<triggered, exit_code>>
                    ELSE /\ triggered' = Raise(<<TriggerPrefix(cmd), MsgNotFound>>)
                         /\ Fail
    /\ UNCHANGED <<idVars, start_time, dispatch_at, inputs>>
    /\ UNCHANGED <<platVars, waitVars, logVars, loadVars>>

\* trigger_codesign after the loop: all_runs = list_workflow_runs(...), log
\* the first five, raise
Diagnose ==
    /\ pc = "diagnose"
    /\ Called("list")
    /\ \/ triggered' = Raise(<<TriggerPrefix(cmd), RemoteFailure>>)
       \/ triggered' = Raise(<<TriggerPrefix(cmd), MsgNotFound>>)
    /\ Fail
    /\ UNCHANGED <<clientVars, start_time, attempt, scanned, dispatch_at, inputs>>
    /\ UNCHANGED <<platVars, waitVars, logVars, loadVars>>

\* a test that takes every conclusion but failure for a success
NotFailure(conclusion) == conclusion # "failure"

\* conclusion == "success"
Succeeded(conclusion) == conclusion = "success"

\* an error that leaves the conclusion out
FailedRunUnnamed(conclusion) == Raise(<<"Workflow failed">>)

\* raise PushbutanError(f"Workflow failed with conclusion: {conclusion}")
FailedRun(conclusion) == Raise(<<MsgConclusion, conclusion>>)

\* a loop test that lets one more interval pass
ExpiredLate(seconds, minutes) == seconds >= minutes * SecondsPerMinute + PollSeconds

\* a deadline computed one minute short
ExpiredEarly(seconds, minutes) == seconds >= (minutes - 1) * SecondsPerMinute

\* not (time.time() - start_time < timeout)
Expired(seconds, minutes) == ~(seconds < minutes * SecondsPerMinute)

\* the stop command ends after its wait; the codesign command goes on to
\* its download-dir option
AfterWait(c) == IF c = "codesign" THEN "finish" ELSE "exit"

\* the while condition fails: raise "Timed out after ... minutes"
WaitTimedOut ==
    /\ pc = "wait"
    /\ Expired(elapsed, timeout_minutes)
    /\ waited' = Raise(<<MsgTimedOut, ToString(timeout_minutes), " minutes">>)
    /\ Fail
    /\ UNCHANGED <<clientVars, corrVars, platVars, calls, logVars, loadVars>>
    /\ UNCHANGED <<elapsed, last_poll, completed_polls>>

\* one turn of the wait loop: get_workflow_run, which takes its time,
\* classify, sleep
Poll ==
    /\ pc = "wait"
    /\ ~Expired(elapsed, timeout_minutes)
    /\ Called("get_run")
    /\ \/ /\ waited' = Raise(<<MsgGetRun, RemoteFailure>>)
          /\ Fail
          /\ UNCHANGED <<elapsed, last_poll, completed_polls>>
       \/ \E run \in Observations :
            /\ last_poll' = run
            /\ IF run.status = "completed"
               THEN /\ completed_polls' = completed_polls + 1
                    /\ \E lag \in 0..MaxLag : elapsed' = elapsed + PollSeconds * lag
                    /\ IF Succeeded(run.conclusion)
                       THEN IF ParseLogs(cmd)
                            THEN pc' = "logs" /\ UNCHANGED <<waited, exit_code>>
                            ELSE /\ waited' = Return([success |-> TRUE])
                                 /\ pc' = AfterWait(cmd)
                                 /\ exit_code' =
                                        IF AfterWait(cmd) = "exit" THEN 0
                                        ELSE exit_code
                       ELSE /\ waited' = FailedRun(run.conclusion)
                            /\ Fail
               ELSE /\ \E lag \in 0..MaxLag :
                         elapsed' = elapsed + PollSeconds * (1 + lag)
                    /\ UNCHANGED <<completed_polls, waited, pc, exit_code>>
    /\ UNCHANGED <<clientVars, corrVars, platVars, logVars, loadVars>>

\* logs = self.get_run_logs(run_id, save_logs=save_logs)
GetRunLogs ==
    /\ pc = "logs"
    /\ Called("logs")
    /\ \/ /\ waited' = Raise(<<MsgGetLogs, RemoteFailure>>)
          /\ Fail
          /\ UNCHANGED <<lines, logs>>
       \/ /\ \E ls \in SampleLogs : lines' = ls /\ logs' = JoinLines(ls)
          /\ pc' = "extract"
          /\ UNCHANGED <<waited, exit_code>>
    /\ UNCHANGED <<clientVars, corrVars, platVars, details, loadVars>>
    /\ UNCHANGED <<elapsed, last_poll, completed_polls>>

\* return self.extract_instance_details(logs)
Extract ==
    /\ pc = "extract"
    /\ LET found == extract_instance_details(logs) IN
         /\ details' = found
         /\ waited' = found
         /\ exit_code' = IF Raised(found) THEN 1 ELSE 0
    /\ pc' = "exit"
    /\ UNCHANGED <<clientVars, corrVars, platVars, calls, lines, logs, loadVars>>
    /\ UNCHANGED <<elapsed, last_poll, completed_polls>>

\* the end of the codesign command: if download_dir:
\* pb.download_workflow_artifact(run_id, "signed-packages", download_dir),
\* which lists the run's artifacts, picks the one of that name, downloads
\* it and writes it under the directory
DownloadIfRequested ==
    /\ pc = "finish"
    /\ \E dir \in DownloadDirs :
         /\ download_dir' = dir
         /\ IF ~Truthy(dir)
            THEN /\ pc' = "exit"
                 /\ exit_code' = 0
                 /\ UNCHANGED <<artifact, calls>>
            ELSE \/ /\ calls' = [calls EXCEPT !["artifacts"] = @ + 1]
                    /\ \/ artifact' = Raise(<<MsgDownload, RemoteFailure>>)
                       \/ artifact' = Raise(<<MsgDownload, MsgNoArtifact>>)
                    /\ Fail
                 \/ /\ calls' = [calls EXCEPT !["artifacts"] = @ + 1,
                                             !["download"] = @ + 1]
                    /\ \/ /\ artifact' \in {Raise(<<MsgDownload, RemoteFailure>>),
                                             Raise(<<MsgDownload, WriteFailure>>)}
                          /\ Fail
                       \/ /\ artifact' = Return(<<dir, "signed-packages.zip">>)
                          /\ pc' = "exit"
                          /\ exit_code' = 0
    /\ UNCHANGED <<clientVars, corrVars, platVars, waitVars, logVars>>

(***************************************************************************)
(* The platform and the clock, while a listing can still be read.          *)
(***************************************************************************)
InOperation == {"construct", "record", "dispatch", "correlate", "diagnose"}
Correlating == pc \in InOperation \/ peer.pc \in InOperation

Stamps(t) == {c \in 0..t : t - c <= MaxSkew}
NewRun(actor, stamp, origin) ==
    [id |-> Len(runs) + 1, actor |-> actor, created_at |-> stamp, origin |-> origin]

Tick ==
    /\ Correlating
    /\ now < MaxTime
    /\ now' = now + 1
    /\ UNCHANGED <<clientVars, corrVars, waitVars, logVars, loadVars>>
    /\ UNCHANGED <<pc, calls, pending, runs, exit_code>>

\* the platform creates the run of the accepted dispatch
PlatformCreatesRun ==
    /\ Correlating
    /\ pending
    /\ Len(runs) < MaxRuns
    /\ \E c \in Stamps(now) : runs' = <<NewRun(Me, c, "self")>> \o runs
    /\ pending' = FALSE
    /\ UNCHANGED <<clientVars, corrVars, waitVars, logVars, loadVars>>
    /\ UNCHANGED <<pc, calls, now, exit_code>>

\* a run of the workflow that this command did not dispatch
OtherRun ==
    /\ Correlating
    /\ Len(runs) < MaxRuns
    /\ \E a \in {Me, Other, NoActor}, c \in Stamps(now) :
         runs' = <<NewRun(a, c, "other")>> \o runs
    /\ UNCHANGED <<clientVars, corrVars, waitVars, logVars, loadVars>>
    /\ UNCHANGED <<pc, calls, now, pending, exit_code>>

Step ==
    \/ Construct
    \/ RecordStartTime
    \/ Dispatch
    \/ CorrelateAttempt
    \/ Diagnose
    \/ WaitTimedOut
    \/ Poll
    \/ GetRunLogs
    \/ Extract
    \/ DownloadIfRequested

Next ==
    \/ Step
    \/ Tick
    \/ PlatformCreatesRun
    \/ OtherRun

Spec == Init /\ [][Next]_vars

(***************************************************************************)
(* A dispatching operation called on a constructed client.                 *)
(***************************************************************************)
CorrInit ==
    /\ cmd \in Commands
    /\ surface = "library"
    /\ args = DefaultArgs(cmd)
    /\ pc = FirstStep(cmd)
    /\ peer = NoPeer
    /\ ReadyClient
    /\ Untouched

CorrNext ==
    \/ RecordStartTime
    \/ Dispatch
    \/ CorrelateAttempt
    \/ Diagnose
    \/ Tick
    \/ PlatformCreatesRun
    \/ OtherRun

CorrSpec == CorrInit /\ [][CorrNext]_vars

\* the operation is running code: its loop takes its next turn
CorrLiveSpec == CorrSpec /\ WF_vars(CorrelateAttempt) /\ WF_vars(Diagnose)

(***************************************************************************)
(* The tool server.  A tool constructs a client, calls the library and     *)
(* returns json.dumps of what it got.                                      *)
(***************************************************************************)
\* the tools that call the library: start_linux_gpu_instance,
\* stop_instance, get_instance_details, get_job_status, list_workflows
Tools == {"start", "stop", "details", "status", "workflows"}

\* a tool that goes by the conclusion alone
job_status_by_conclusion(run) ==
    IF run.conclusion = "success"
    THEN [status |-> "ready", message |-> <<"Workflow completed successfully">>]
    ELSE IF run.conclusion = "None"
    THEN [status |-> "in_progress", workflow_status |-> run.status,
          workflow_conclusion |-> run.conclusion]
    ELSE [status |-> "failed", error |-> <<MsgConclusion, run.conclusion>>]

\* the payload get_job_status builds for the run it fetched
job_status(run) ==
    IF run.status = "completed"
    THEN IF run.conclusion = "success"
         THEN [status |-> "ready", message |-> <<"Workflow completed successfully">>]
         ELSE [status |-> "failed", error |-> <<MsgConclusion, run.conclusion>>]
    ELSE [status |-> "in_progress", workflow_status |-> run.status,
          workflow_conclusion |-> run.conclusion]

\* logs = pb.get_run_logs(run_id); pb.extract_instance_details(logs)
GetInstanceDetails ==
    /\ pc = "get_instance_details"
    /\ Called("logs")
    /\ \/ /\ reply' = Raise(<<MsgGetLogs, RemoteFailure>>)
          /\ Fail
          /\ UNCHANGED logVars
       \/ \E ls \in SampleLogs :
            LET found == extract_instance_details(JoinLines(ls)) IN
            /\ lines' = ls
            /\ logs' = JoinLines(ls)
            /\ details' = found
            /\ reply' = found
            /\ IF Raised(found)
               THEN Fail
               ELSE pc' = "returned" /\ UNCHANGED exit_code
    /\ UNCHANGED <<cmd, token, username, constructed, surface, args, peer>>
    /\ UNCHANGED <<timeout_minutes, corrVars, platVars, waitVars, loadVars>>

\* run = pb.get_workflow_run(run_id) inside try; the except clause returns
\* the failure payload
GetJobStatus ==
    /\ pc = "get_job_status"
    /\ Called("get_run")
    /\ \/ /\ reply' = Return([status |-> "failed",
                               error |-> <<MsgGetRun, RemoteFailure>>])
          /\ UNCHANGED last_poll
       \/ \E run \in Observations :
            /\ last_poll' = run
            /\ reply' = Return(job_status(run))
    /\ pc' = "returned"
    /\ UNCHANGED <<cmd, token, username, constructed, surface, args, peer>>
    /\ UNCHANGED <<timeout_minutes, corrVars, platVars, logVars, loadVars, exit_code>>
    /\ UNCHANGED <<elapsed, completed_polls, waited>>

\* workflows = pb.list_workflows()
ListWorkflows ==
    /\ pc = "list_workflows"
    /\ Called("workflows")
    /\ \/ /\ reply' = Raise(<<MsgListWorkflows, RemoteFailure>>)
          /\ Fail
       \/ /\ reply' = Return([workflows |-> "listed"])
          /\ pc' = "returned"
          /\ UNCHANGED exit_code
    /\ UNCHANGED <<cmd, token, username, constructed, surface, args, peer>>
    /\ UNCHANGED <<timeout_minutes, corrVars, platVars, waitVars, logVars, loadVars>>

ToolInit ==
    /\ cmd \in Tools
    /\ surface = "mcp"
    /\ args = DefaultArgs(cmd)
    /\ token \in Credentials
    /\ pc = "construct"
    /\ username = NoUser
    /\ constructed = NotCalled
    /\ calls = [k \in CallKinds |-> 0]
    /\ peer = NoPeer
    /\ Untouched

ToolNext ==
    \/ Construct
    \/ RecordStartTime
    \/ Dispatch
    \/ CorrelateAttempt
    \/ GetInstanceDetails
    \/ GetJobStatus
    \/ ListWorkflows
    \/ Tick
    \/ PlatformCreatesRun
    \/ OtherRun

ToolSpec == ToolInit /\ [][ToolNext]_vars

(***************************************************************************)
(* Two invocations of the same operation by the same identity.  The second *)
(* one, the peer, runs the same code on a client of its own; the platform  *)
(* lists the runs of both in one listing.                                  *)
(***************************************************************************)
PeerEnds(result) ==
    [peer EXCEPT !.pc = "done", !.result = result, !.ended_at = now]

\* start_time = datetime.now(timezone.utc)
PeerRecord ==
    /\ peer.pc = "record"
    /\ peer' = [peer EXCEPT !.pc = AfterRecord(cmd), !.start_time = now]
    /\ UNCHANGED <<cmd, token, username, constructed, surface, args, reply>>
    /\ UNCHANGED <<timeout_minutes, corrVars, platVars, waitVars, logVars, loadVars>>
    /\ UNCHANGED <<pc, calls, exit_code>>

\* self.gh.request("POST", ".../dispatches", ...)
PeerDispatch ==
    /\ peer.pc = "dispatch"
    /\ \/ peer' = PeerEnds(Raise(<<TriggerPrefix(cmd), RemoteFailure>>))
       \/ peer' = [peer EXCEPT !.pc = AfterDispatch(cmd), !.dispatch_at = now,
                               !.pending = TRUE]
    /\ UNCHANGED <<cmd, token, username, constructed, surface, args, reply>>
    /\ UNCHANGED <<timeout_minutes, corrVars, platVars, waitVars, logVars, loadVars>>
    /\ UNCHANGED <<pc, calls, exit_code>>

\* one attempt of the peer's correlation loop
PeerCorrelate ==
    /\ peer.pc = "correlate"
    /\ peer.attempt < MaxAttempts
    /\ LET tried == [peer EXCEPT !.attempt = @ + 1]
           Ends(result) ==
               [tried EXCEPT !.pc = "done", !.result = result, !.ended_at = now]
           found == ScanRuns(runs, username, peer.start_time)
       IN \/ peer' = Ends(Raise(<<TriggerPrefix(cmd), RemoteFailure>>))
          \/ CASE found.kind = "error" ->
                    peer' = Ends(Raise(<<TriggerPrefix(cmd), AttributeErrorText>>))
               [] found.kind = "match" ->
                    peer' = Ends(Return(TriggerResult(cmd, found.run)))
               [] found.kind = "none" ->
                    IF tried.attempt < MaxAttempts
                    THEN peer' = tried
                    ELSE IF cmd = "codesign"
                    THEN peer' = [tried EXCEPT !.pc = "diagnose"]
                    ELSE peer' = Ends(Raise(<<TriggerPrefix(cmd), MsgNotFound>>))
    /\ UNCHANGED <<cmd, token, username, constructed, surface, args, reply>>
    /\ UNCHANGED <<timeout_minutes, corrVars, platVars, waitVars, logVars, loadVars>>
    /\ UNCHANGED <<pc, calls, exit_code>>

\* trigger_codesign after the loop, in the peer
PeerDiagnose ==
    /\ peer.pc = "diagnose"
    /\ \/ peer' = PeerEnds(Raise(<<TriggerPrefix(cmd), RemoteFailure>>))
       \/ peer' = PeerEnds(Raise(<<TriggerPrefix(cmd), MsgNotFound>>))
    /\ UNCHANGED <<cmd, token, username, constructed, surface, args, reply>>
    /\ UNCHANGED <<timeout_minutes, corrVars, platVars, waitVars, logVars, loadVars>>
    /\ UNCHANGED <<pc, calls, exit_code>>

\* the platform creates the run of the peer's accepted dispatch
PlatformCreatesPeerRun ==
    /\ Correlating
    /\ peer.pc # "absent"
    /\ peer.pending
    /\ Len(runs) < MaxRuns
    /\ \E c \in Stamps(now) : runs' = <<NewRun(Me, c, "peer")>> \o runs
    /\ peer' = [peer EXCEPT !.pending = FALSE]
    /\ UNCHANGED <<cmd, token, username, constructed, surface, args, reply>>
    /\ UNCHANGED <<timeout_minutes, corrVars, waitVars, logVars, loadVars>>
    /\ UNCHANGED <<pc, calls, now, pending, exit_code>>

RaceInit ==
    /\ cmd \in Commands
    /\ surface = "library"
    /\ args = DefaultArgs(cmd)
    /\ pc = FirstStep(cmd)
    /\ peer = [pc |-> FirstStep(cmd), start_time |-> NoTime, attempt |-> 0,
               dispatch_at |-> NoTime, pending |-> FALSE, result |-> NotCalled,
               ended_at |-> NoTime]
    /\ ReadyClient
    /\ Untouched

PeerStep == PeerRecord \/ PeerDispatch \/ PeerCorrelate \/ PeerDiagnose

RaceNext ==
    \/ RecordStartTime
    \/ Dispatch
    \/ CorrelateAttempt
    \/ Diagnose
    \/ PeerStep
    \/ Tick
    \/ PlatformCreatesRun
    \/ PlatformCreatesPeerRun

RaceSpec == RaceInit /\ [][RaceNext]_vars

(***************************************************************************)
(* A command from its wait on: it holds the id of the run it triggered,     *)
(* calls wait_for_instance and does what follows the wait.                 *)
(***************************************************************************)
WaitInit ==
    /\ cmd \in Commands
    /\ timeout_minutes \in 0..MaxTimeoutMinutes
    /\ token = "ghp_token"
    /\ pc = "wait"
    /\ username = Me
    /\ constructed = Return(Me)
    /\ now = 0
    /\ start_time = 0
    /\ attempt = 1
    /\ calls = [k \in CallKinds |->
                  IF k \in {"user", "dispatch", "list"} THEN 1 ELSE 0]
    /\ scanned = 0
    /\ dispatch_at = 0
    /\ pending = FALSE
    /\ runs = <<[id |-> 1, actor |-> Me, created_at |-> 0, origin |-> "self"]>>
    /\ triggered = Return(TriggerResult(cmd, runs[1]))
    /\ elapsed = 0
    /\ last_poll = NoPoll
    /\ completed_polls = 0
    /\ waited = NotCalled
    /\ lines = <<>>
    /\ logs = <<>>
    /\ details = NotCalled
    /\ exit_code = NoExit
    /\ surface = "cli"
    /\ args = DefaultArgs(cmd)
    /\ inputs = NoInputs
    /\ peer = NoPeer
    /\ reply = NotCalled
    /\ download_dir = NotRead
    /\ artifact = NotCalled

WaitLoop == WaitTimedOut \/ Poll

WaitNext == WaitLoop \/ GetRunLogs \/ Extract \/ DownloadIfRequested

WaitSpec == WaitInit /\ [][WaitNext]_vars

\* the caller is a running process: the loop takes its next turn
WaitLiveSpec == WaitSpec /\ WF_vars(WaitLoop)

(***************************************************************************)
(* Log extraction on its own (get_instance_details of the tool surface):   *)
(* a run writes a log, line by line, and extract_instance_details is       *)
(* applied to the text.                                                    *)
(***************************************************************************)
ExtractInit ==
    /\ cmd = "start"
    /\ timeout_minutes = NoTimeout
    /\ token = "ghp_token"
    /\ pc = "get_instance_details"
    /\ username = Me
    /\ constructed = Return(Me)
    /\ now = 0
    /\ start_time = NoTime
    /\ attempt = 0
    /\ calls = [k \in CallKinds |-> 0]
    /\ scanned = 0
    /\ dispatch_at = NoTime
    /\ pending = FALSE
    /\ runs = <<>>
    /\ triggered = NotCalled
    /\ elapsed = 0
    /\ last_poll = NoPoll
    /\ completed_polls = 0
    /\ waited = NotCalled
    /\ lines = <<>>
    /\ logs = <<>>
    /\ details = NotCalled
    /\ exit_code = NoExit
    /\ surface = "mcp"
    /\ args = DefaultArgs(cmd)
    /\ inputs = NoInputs
    /\ peer = NoPeer
    /\ reply = NotCalled
    /\ download_dir = NotRead
    /\ artifact = NotCalled

WriteLogLine ==
    /\ pc = "get_instance_details"
    /\ details = NotCalled
    /\ Len(lines) < MaxLines
    /\ \E l \in LogLines :
         /\ lines' = Append(lines, l)
         /\ logs' = JoinLines(Append(lines, l))
    /\ UNCHANGED <<clientVars, corrVars, platVars, waitVars>>
    /\ UNCHANGED <<pc, calls, details, loadVars, exit_code>>

ExtractDetails ==
    /\ pc = "get_instance_details"
    /\ details = NotCalled
    /\ details' = extract_instance_details(logs)
    /\ UNCHANGED <<clientVars, corrVars, platVars, waitVars>>
    /\ UNCHANGED <<pc, calls, lines, logs, loadVars, exit_code>>

ExtractNext == WriteLogLine \/ ExtractDetails

ExtractSpec == ExtractInit /\ [][ExtractNext]_vars

(***************************************************************************)
(* The start operations called on a constructed client with any arguments, *)
(* up to the dispatch.                                                     *)
(***************************************************************************)
StartInit ==
    /\ cmd = "start"
    /\ surface = "library"
    /\ args \in StartArgs
    /\ pc = FirstStep(cmd)
    /\ peer = NoPeer
    /\ ReadyClient
    /\ Untouched

StartNext == RecordStartTime \/ Dispatch \/ Tick

StartSpec == StartInit /\ [][StartNext]_vars

(***************************************************************************)
(* Correlation.                                                            *)
(***************************************************************************)
\* C1: a dispatching operation returns a run only if the run's actor is the
\* authenticated user and its created_at is not before the operation's
\* start_time; an older run of the same actor, or a run of another actor,
\* is never returned.
C1_ReturnsOnlyMatchingRun ==
    Returned(triggered) =>
        \E i \in 1..Len(runs) :
            /\ runs[i].id = triggered.value.run_id
            /\ runs[i].actor = username
            /\ runs[i].created_at >= start_time

\* C1 witness: a run was returned although the listings, one of them scanned
\* to its end before, also held an older run of the same actor
C1_Witness ==
    /\ Returned(triggered)
    /\ scanned >= 1
    /\ \E i \in 1..Len(runs) :
           runs[i].actor = username /\ runs[i].created_at < start_time

\* C2: in every dispatching operation the start_time is recorded before the
\* dispatch call is issued.
C2_TimeBeforeDispatch == calls["dispatch"] > 0 => start_time # NoTime

\* C3: when all attempts fetched a listing and none held a matching run, the
\* operation fails with an error that says the triggered run could not be
\* found.
C3_ExhaustedSaysNotFound ==
    (triggered # NotCalled /\ scanned = MaxAttempts) =>
        Says(triggered, MsgNotFound)

(***************************************************************************)
(* Waiting.                                                                *)
(***************************************************************************)
PollSucceeded == last_poll = [status |-> "completed", conclusion |-> "success"]
PollFailed == last_poll.status = "completed" /\ last_poll.conclusion # "success"
NoMorePolls == calls'["get_run"] = calls["get_run"]

\* C4: wait_for_instance returns a result only when a poll observed
\* completed/success, which is then the only completed poll and the last
\* poll: no status fetch follows it.
C4_ReturnsOnlyAfterSuccess ==
    /\ [](Returned(waited) => PollSucceeded /\ completed_polls = 1)
    /\ [][PollSucceeded => NoMorePolls]_vars

\* C4 witness: two polls saw the run unfinished, the third saw it succeed,
\* and the wait returned
C4_Witness ==
    /\ Returned(waited)
    /\ calls["get_run"] = 3

\* C5: when a poll observes completed with a conclusion other than success
\* the wait raises an error carrying the conclusion; it returns nothing,
\* polls no more and touches no logs.
C5_FailsOnOtherConclusion ==
    /\ [](PollFailed =>
            /\ waited = Raise(<<MsgConclusion, last_poll.conclusion>>)
            /\ calls["logs"] = 0
            /\ details = NotCalled)
    /\ [][PollFailed => NoMorePolls]_vars

\* C5 witness: the second poll saw the run cancelled and the wait raised
C5_Witness ==
    /\ last_poll = [status |-> "completed", conclusion |-> "cancelled"]
    /\ calls["get_run"] = 2
    /\ Raised(waited)

\* C6: the wait loop ends; when the wait has ended with the deadline reached
\* and no poll having seen the run completed, it has raised the timed-out
\* error, whatever status the polls saw, and returned nothing.
C6_TimesOut ==
    /\ (pc = "wait") ~> (pc # "wait")
    /\ []((/\ waited # NotCalled
           /\ completed_polls = 0
           /\ elapsed >= timeout_minutes * SecondsPerMinute)
          => Says(waited, MsgTimedOut))

\* C6 witness: polls saw a status outside the known ones until the deadline
\* passed, and the wait raised the timed-out error
C6_Witness ==
    /\ Says(waited, MsgTimedOut)
    /\ calls["get_run"] >= 2
    /\ last_poll.status = "waiting"

(***************************************************************************)
(* What the run wrote, read off the lines themselves.                      *)
(***************************************************************************)
Carrying(f) == {i \in 1..Len(lines) : lines[i].field = f}
Written(f) == Carrying(f) # {}
\* every value of field f in the log, in document order
FirstWritten(f) == lines[Min(Carrying(f))].values[1]
WrittenOnce(f) ==
    /\ Cardinality(Carrying(f)) = 1
    /\ Len(lines[Min(Carrying(f))].values) = 1
WrittenTwice(f) ==
    \/ Cardinality(Carrying(f)) > 1
    \/ \E i \in Carrying(f) : Len(lines[i].values) > 1
MissingMessage(f) ==
    CASE f = "instance_id" -> MsgNoInstanceId
      [] f = "ip_address" -> MsgNoIp
      [] f = "arch" -> MsgNoPlatform
      [] f = "instance_type" -> MsgNoInstanceType
\* the fields an error names
NamedMissing(o) == {f \in FieldSet : Says(o, MissingMessage(f))}

\* C7: extraction is all-or-nothing: when any of the four fields is absent
\* from the log the call raises and returns no dictionary, and a returned
\* dictionary has exactly the keys instance_id, ip_address, arch,
\* instance_type, every one of them written in the log.
C7_AllOrNothing ==
    details # NotCalled =>
        /\ (\E f \in FieldSet : ~Written(f)) => Raised(details)
        /\ Returned(details) =>
             /\ DOMAIN details.value = FieldSet
             /\ \A f \in FieldSet : Written(f) /\ details.value[f] # NoMatch

\* C7 witness: a log with three of the four fields, on which the call raised
C7_Witness ==
    /\ Cardinality({f \in FieldSet : Written(f)}) = 3
    /\ Raised(details)

\* C8: when a field's marker occurs more than once with different values, on
\* different lines or on one line, the value returned for the field is the
\* one of the first occurrence in document order.
C8_FirstOccurrence ==
    Returned(details) =>
        \A f \in FieldSet : WrittenTwice(f) => details.value[f] = FirstWritten(f)

\* C9: a log that holds each field once, on a line of its own with or
\* without a timestamp prefix, extracts to exactly the four written values,
\* unchanged and in full.
C9_RoundTrip ==
    (details # NotCalled /\ \A f \in FieldSet : WrittenOnce(f)) =>
        details = Return([f \in FieldSet |-> FirstWritten(f)])

\* C9 witness: such a log, one of its lines prefixed, has been extracted
C9_Witness ==
    /\ \A f \in FieldSet : WrittenOnce(f)
    /\ \E i \in 1..Len(lines) : lines[i].field = "instance_id" /\ lines[i].text[1] = TS
    /\ Returned(details)

\* C10: a failed extraction names exactly the fields missing from the log:
\* every missing field and no present one.
C10_NamesExactlyTheMissing ==
    Raised(details) => NamedMissing(details) = {f \in FieldSet : ~Written(f)}

(***************************************************************************)
(* The start operations.                                                   *)
(***************************************************************************)
\* C11: a dispatch of the Linux start operation carries arch linux-64 and
\* cuda_version "12.4", one of the Windows start operation carries arch win-64
\* and cuda_version "none", whatever instance_type, branch and lifetime the
\* caller passed, and these three arrive as passed.
C11_CudaFollowsPlatform ==
    (cmd = "start" /\ calls["dispatch"] > 0) =>
        /\ inputs.arch = IF args.windows THEN "win-64" ELSE "linux-64"
        /\ inputs.cuda_version = IF args.windows THEN "none" ELSE "12.4"
        /\ inputs.instance_type = args.instance_type
        /\ inputs.branch = args.branch
        /\ inputs.lifetime = args.lifetime

\* C11 witness: a Windows start with no argument at its default has dispatched
C11_Witness ==
    /\ cmd = "start"
    /\ calls["dispatch"] > 0
    /\ args.windows
    /\ args.instance_type = "p3.2xlarge"
    /\ args.branch = "dev"
    /\ args.lifetime = "1"

(***************************************************************************)
(* The stop command and the order of the stages.                           *)
(***************************************************************************)
\* C12: the stop command never downloads a log and never runs the
\* extraction, and when a poll observes completed/success its wait returns
\* exactly {success: true}.
C12_StopNeverReadsLogs ==
    cmd = "stop" =>
        /\ calls["logs"] = 0
        /\ lines = <<>>
        /\ details = NotCalled
        /\ PollSucceeded => waited = Return([success |-> TRUE])

\* C12 witness: a stop whose second poll saw the run succeed
C12_Witness ==
    /\ cmd = "stop"
    /\ PollSucceeded
    /\ calls["get_run"] = 2
    /\ Returned(waited)

MoreCalls(kind) == calls'[kind] > calls[kind]

\* C13: the stages of an operation come in the order dispatch, listing
\* fetches, status polls, log download, extraction, and each starts only
\* after the one before it succeeded: no listing without an accepted
\* dispatch, no poll without a correlated run, no log download or extraction
\* without a poll that saw completed/success, no extraction without the
\* downloaded log.
C13_StagesInOrder ==
    /\ [](calls["list"] > 0 => calls["dispatch"] = 1 /\ dispatch_at # NoTime)
    /\ [](calls["get_run"] > 0 => Returned(triggered))
    /\ []((calls["logs"] > 0 \/ details # NotCalled) => PollSucceeded)
    /\ [](details # NotCalled => calls["logs"] = 1 /\ logs = JoinLines(lines))
    /\ [][MoreCalls("dispatch") => calls["list"] = 0]_vars
    /\ [][MoreCalls("list") => calls["get_run"] = 0]_vars
    /\ [][MoreCalls("get_run") => calls["logs"] = 0]_vars
    /\ [][MoreCalls("logs") => details = NotCalled]_vars

\* C13 witness: a start that went through every stage, its run found at the
\* second listing, and extracted the details
C13_Witness ==
    /\ calls["list"] = 2
    /\ calls["get_run"] >= 2
    /\ calls["logs"] = 1
    /\ Returned(details)

(***************************************************************************)
(* Two invocations.                                                        *)
(***************************************************************************)
RunOf(id) == CHOOSE r \in {runs[i] : i \in 1..Len(runs)} : r.id = id
\* the first run of the listing that is the user's and not older than since
FirstCandidate(since) ==
    LET cand == {i \in 1..Len(runs) :
                   runs[i].actor = username /\ runs[i].created_at >= since}
    IN IF cand = {} THEN 0 ELSE Min(cand)
ListingFailed(o) == Says(o, RemoteFailure)

\* C14: nothing in the client tells the runs of two invocations apart: an
\* attempt that fetches a listing whose first run of the user not older
\* than start_time was created by the other invocation's dispatch returns
\* that run.
C14_ReturnsThePeersRun ==
    [][(/\ pc = "correlate"
        /\ attempt' = attempt + 1
        /\ ~ListingFailed(triggered')
        /\ FirstCandidate(start_time) # 0
        /\ runs[FirstCandidate(start_time)].origin = "peer")
       => triggered' = Return(TriggerResult(cmd, runs[FirstCandidate(start_time)]))]_vars

\* C14 witness: both invocations returned the same run, the one the peer's
\* dispatch created
C14_Witness ==
    /\ Returned(triggered)
    /\ peer.pc = "done"
    /\ Returned(peer.result)
    /\ peer.result.value.run_id = triggered.value.run_id
    /\ RunOf(triggered.value.run_id).origin = "peer"

\* the second invocation ended its correlation before this one read the
\* clock for its start_time
Serialized == peer.pc = "done" /\ start_time # NoTime /\ peer.ended_at < start_time
\* no run is stamped earlier than the moment its dispatch was issued
StampedAfterDispatch ==
    \A i \in 1..Len(runs) :
        /\ runs[i].origin = "self" => runs[i].created_at >= dispatch_at
        /\ runs[i].origin = "peer" => runs[i].created_at >= peer.dispatch_at

\* C20: when the invocations are serialized and the platform stamps no run
\* earlier than its dispatch, a returned run is the one this invocation's
\* dispatch created.
C20_SerializedReturnsOwnRun ==
    (Returned(triggered) /\ Serialized /\ StampedAfterDispatch) =>
        RunOf(triggered.value.run_id).origin = "self"

(***************************************************************************)
(* Errors.                                                                 *)
(***************************************************************************)
\* the texts that say what failed
CausePieces ==
    {MsgNoToken, RemoteFailure, AttributeErrorText, MsgNotFound, MsgConclusion,
     MsgTimedOut, MsgNoInstanceId, MsgNoIp, MsgNoPlatform, MsgNoInstanceType,
     MsgNoArtifact, WriteFailure}
CausesSaid(o) == {c \in CausePieces : Says(o, c)}
Surfaced(o) ==
    Raised(o) => Cardinality(CausesSaid(o)) = 1 /\ pc = "exit" /\ exit_code = 1
DeadlinePassed ==
    /\ waited # NotCalled
    /\ completed_polls = 0
    /\ elapsed >= timeout_minutes * SecondsPerMinute

C16_ToolsNeverRaise == surface = "mcp" => pc # "raised"

(***************************************************************************)
(* The credential.                                                         *)
(***************************************************************************)
\* C17: when neither the token argument nor GITHUB_TOKEN gives a non-empty
\* credential the construction fails with the missing-token error and no
\* remote call is ever made.
C17_NoCallWithoutCredential ==
    token \in {Unset, NoToken} =>
        /\ \A k \in CallKinds : calls[k] = 0
        /\ username = NoUser
        /\ constructed \in {NotCalled, Raise(<<MsgNoToken>>)}
        /\ pc \in {"construct", "exit"}

\* C17 witness: a command run with an empty GITHUB_TOKEN has failed
C17_Witness ==
    /\ token = NoToken
    /\ constructed = Raise(<<MsgNoToken>>)
    /\ exit_code = 1

(***************************************************************************)
(* The budget of the correlation.                                          *)
(***************************************************************************)
\* C18: a correlation ends: it makes at most 20 attempts with one listing
\* fetch each, returns at the first listing that holds a match and fetches
\* no listing afterwards, and has failed once 20 listings held no match.
C18_BoundedCorrelation ==
    /\ [](attempt <= 20 /\ scanned <= attempt)
    /\ [](cmd # "codesign" => calls["list"] = attempt)
    /\ [](cmd = "codesign" =>
            calls["list"] = attempt + IF scanned = 20 /\ pc # "diagnose" THEN 1 ELSE 0)
    /\ [](Returned(triggered) => scanned = attempt - 1)
    /\ [][Returned(triggered) => ~MoreCalls("list")]_vars
    /\ []((scanned = 20 /\ pc # "diagnose") => Raised(triggered))
    /\ (pc = "correlate") ~> (triggered # NotCalled)

\* C18 witness: the run was found at the 20th listing
C18_Witness ==
    /\ Returned(triggered)
    /\ attempt = 20
    /\ calls["list"] = 20

\* C19: an operation issues its dispatch call once, before the first
\* listing, and never again: not between attempts, not after the
\* correlation failed, not after the wait timed out or the run failed.
C19_DispatchOnce ==
    /\ [](calls["dispatch"] <= 1)
    /\ [](calls["list"] > 0 => calls["dispatch"] = 1)
    /\ [][calls["dispatch"] > 0 => ~MoreCalls("dispatch")]_vars

\* C19 witness: listings were fetched, the wait timed out, and one dispatch
\* had been issued
C19_Witness ==
    /\ calls["dispatch"] = 1
    /\ calls["list"] >= 2
    /\ Says(waited, MsgTimedOut)
    /\ pc = "exit"

(***************************************************************************)
(* The run of the operation's own dispatch.                                *)
(***************************************************************************)
\* the positions of the listing that hold the run this operation's dispatch
\* produced, created and stamped not before the dispatch call was issued
OwnRuns ==
    {i \in 1..Len(runs) :
        /\ runs[i].origin = "self"
        /\ runs[i].actor = username
        /\ dispatch_at # NoTime
        /\ runs[i].created_at >= dispatch_at}
\* no run listed ahead of position i is the user's or lacks an actor
Unrivalled(i) == \A j \in 1..(i - 1) : runs[j].actor \notin {username, NoActor}
FetchesListing ==
    pc = "correlate" /\ MoreCalls("list") /\ ~ListingFailed(triggered')

\* C21: in start, stop and codesign alike, an attempt whose listing holds
\* the run of the operation's own dispatch, created and stamped at or after
\* the dispatch call and attributed to the user, returns that run's id; the
\* operation does not pass it over and fail with the not-found error.
C21_FindsOwnRun ==
    [][\A i \in OwnRuns :
          (FetchesListing /\ Unrivalled(i)) =>
              triggered' = Return(TriggerResult(cmd, runs[i]))]_vars

(***************************************************************************)
(* The scan of one listing.                                                *)
(***************************************************************************)
\* C22: the scan of an attempt goes through the whole fetched listing in
\* listing order: whenever the listing holds a run of the user not older
\* than start_time, at whatever position, the attempt returns the one of
\* them that comes first in the listing.
C22_ReturnsFirstMatchAnywhere ==
    [][(FetchesListing /\ FirstCandidate(start_time) # 0) =>
          triggered' = Return(TriggerResult(cmd, runs[FirstCandidate(start_time)]))]_vars

\* a run without actor is listed ahead of position i
ActorlessAhead(i) == \E j \in 1..(i - 1) : runs[j].actor = NoActor

\* C28: a listed run that has no actor is passed over as a non-match: the
\* attempt that meets one does not end the operation with an error, and a
\* matching run listed after it is returned.
C28_ActorlessRunIsSkipped ==
    [][FetchesListing =>
          /\ ~Says(triggered', AttributeErrorText)
          /\ \A i \in 1..Len(runs) :
                (i = FirstCandidate(start_time) /\ ActorlessAhead(i)) =>
                    triggered' = Return(TriggerResult(cmd, runs[i]))]_vars

(***************************************************************************)
(* One correlation for the three operations.                               *)
(***************************************************************************)
\* the first run of the listing that has no actor, 0 when every run has one
FirstActorless ==
    LET none == {i \in 1..Len(runs) : runs[i].actor = NoActor}
    IN IF none = {} THEN 0 ELSE Min(none)
\* the scan meets a run without actor before it meets a match
ScanAborts(since) ==
    /\ FirstActorless # 0
    /\ FirstCandidate(since) = 0 \/ FirstActorless < FirstCandidate(since)

\* C27: start, stop and codesign correlate alike: what an attempt does is
\* determined by start_time, the user and the listing it fetched, never by
\* the operation: it returns the id of the first matching run, or goes on
\* to the next attempt, and once 20 listings held no match every one of the
\* operations fails with the not-found error.
C27_SameCorrelation ==
    /\ [][FetchesListing =>
            IF ScanAborts(start_time)
            THEN Says(triggered', AttributeErrorText)
            ELSE IF FirstCandidate(start_time) # 0
            THEN /\ Returned(triggered')
                 /\ triggered'.value.run_id = runs[FirstCandidate(start_time)].id
                 /\ scanned' = scanned
            ELSE /\ ~Returned(triggered')
                 /\ scanned' = scanned + 1
                 /\ attempt' < MaxAttempts => triggered' = NotCalled]_vars
    /\ [][(scanned' = MaxAttempts /\ triggered' # NotCalled) =>
            Says(triggered', MsgNotFound)]_vars

(***************************************************************************)
(* No retry of a failed remote call.                                       *)
(***************************************************************************)
\* C26: a listing fetch that fails in a correlation attempt, or a status
\* fetch that fails in a wait poll, ends the operation at once with the
\* wrapped cause, whatever attempts or time remain, and no listing fetch or
\* poll follows.
C26_FailedCallIsNotRetried ==
    /\ [][(MoreCalls("list") /\ ListingFailed(triggered')) =>
            /\ triggered' = Raise(<<TriggerPrefix(cmd), RemoteFailure>>)
            /\ pc' = "exit" /\ exit_code' = 1]_vars
    /\ [][(MoreCalls("get_run") /\ Says(waited', RemoteFailure)) =>
            /\ waited' = Raise(<<MsgGetRun, RemoteFailure>>)
            /\ pc' = "exit" /\ exit_code' = 1]_vars
    /\ [][(Raised(triggered) \/ Raised(waited)) =>
            ~MoreCalls("list") /\ ~MoreCalls("get_run")]_vars

\* C26 witness: the second status fetch of a wait failed while time remained,
\* and the command ended with the wrapped error
C26_Witness ==
    /\ waited = Raise(<<MsgGetRun, RemoteFailure>>)
    /\ calls["get_run"] = 2
    /\ elapsed < timeout_minutes * SecondsPerMinute
    /\ pc = "exit"

(***************************************************************************)
(* The deadline of the wait.                                               *)
(***************************************************************************)
TimesOutNow == Says(waited', MsgTimedOut) /\ ~Says(waited, MsgTimedOut)

\* C25: with a positive timeout the wait has polled at least once before it
\* fails with the timed-out error, and no poll of a wait that timed out saw
\* the run completed; the deadline is tested only before a poll: the
\* timed-out error is never raised in the turn that fetched a status, and a
\* poll that saw the run completed is classified whatever the time has
\* become.
C25_DeadlineOnlyBeforePoll ==
    /\ []((Says(waited, MsgTimedOut) /\ timeout_minutes > 0) =>
            calls["get_run"] >= 1)
    /\ [](Says(waited, MsgTimedOut) =>
            completed_polls = 0 /\ last_poll.status # "completed")
    /\ [][TimesOutNow =>
            ~MoreCalls("get_run") /\ Expired(elapsed, timeout_minutes)]_vars
    /\ [][(MoreCalls("get_run") /\ completed_polls' > completed_polls) =>
            /\ ~Says(waited', MsgTimedOut)
            /\ pc' # "wait"]_vars

\* C25 witness: a wait of one minute polled twice, the second turn ending
\* past the deadline, and only then failed with the timed-out error
C25_Witness ==
    /\ Says(waited, MsgTimedOut)
    /\ timeout_minutes = 1
    /\ calls["get_run"] = 2
    /\ elapsed > timeout_minutes * SecondsPerMinute

(***************************************************************************)
(* The download of the codesign command.                                   *)
(***************************************************************************)
WaitSucceeded == PollSucceeded /\ waited = Return([success |-> TRUE])
DirSupplied == download_dir \notin {NotRead, Unset, ""}
Downloading == MoreCalls("artifacts") \/ MoreCalls("download")

\* C23: the codesign command attempts the download of the artifact only
\* after its wait has returned success for the run the correlation found,
\* and only when a download directory was supplied, and then once; it never
\* attempts it after a failed correlation, a run that concluded otherwise,
\* a wait that timed out, or without a directory.
C23_DownloadOnlyAfterSuccess ==
    /\ []((calls["artifacts"] > 0 \/ calls["download"] > 0 \/ artifact # NotCalled) =>
            /\ cmd = "codesign"
            /\ Returned(triggered)
            /\ WaitSucceeded
            /\ DirSupplied
            /\ calls["artifacts"] = 1)
    /\ [][Downloading =>
            /\ Returned(triggered) /\ WaitSucceeded
            /\ calls["artifacts"] = 0
            /\ ~MoreCalls("get_run") /\ ~MoreCalls("list")]_vars
    /\ []((/\ cmd = "codesign"
           /\ pc = "exit"
           /\ \/ ~Returned(triggered)
              \/ ~Returned(waited)
              \/ ~DirSupplied)
          => calls["artifacts"] = 0 /\ artifact = NotCalled)

\* C23 witness: a codesign command given a directory found its run, saw it
\* succeed at the second poll, downloaded the artifact and exited with 0
C23_Witness ==
    /\ cmd = "codesign"
    /\ calls["get_run"] = 2
    /\ download_dir = "signed"
    /\ Returned(artifact)
    /\ calls["download"] = 1
    /\ exit_code = 0

(***************************************************************************)
(* One run asked about in two ways: by the waiter of a command and by the  *)
(* get_job_status tool.                                                    *)
(***************************************************************************)
StatusInit ==
    \/ WaitInit
    \/ /\ cmd = "status"
       /\ surface = "mcp"
       /\ args = DefaultArgs(cmd)
       /\ pc = FirstStep(cmd)
       /\ peer = NoPeer
       /\ ReadyClient
       /\ Untouched

StatusNext == WaitNext \/ GetJobStatus

StatusSpec == StatusInit /\ [][StatusNext]_vars

\* the three kinds of run state
StateClass(run) ==
    IF run.status # "completed" THEN "in_progress"
    ELSE IF run.conclusion = "success" THEN "ready"
    ELSE "failed"
\* a status fetch of this step came back with a run
Observes(who) ==
    /\ surface = who
    /\ MoreCalls("get_run")
    /\ IF who = "mcp"
       THEN reply' # Return([status |-> "failed", error |-> <<MsgGetRun, RemoteFailure>>])
       ELSE waited' # Raise(<<MsgGetRun, RemoteFailure>>)

\* C24: get_job_status and the waiter sort every run state the same way:
\* on completed/success the tool reports ready and the wait leaves its loop
\* with success; on completed with any other conclusion the tool reports
\* failed and the wait raises with that conclusion; on any other status the
\* tool reports in_progress and the wait goes on polling; the tool reports
\* no other status.
C24_ToolAndWaiterAgree ==
    /\ [][Observes("mcp") =>
            /\ Returned(reply')
            /\ reply'.value.status = StateClass(last_poll')]_vars
    /\ [][Observes("cli") =>
            CASE StateClass(last_poll') = "ready" ->
                   /\ pc' \in {"logs", "finish", "exit"}
                   /\ pc' = "logs" \/ waited' = Return([success |-> TRUE])
              [] StateClass(last_poll') = "failed" ->
                   waited' = Raise(<<MsgConclusion, last_poll'.conclusion>>)
              [] StateClass(last_poll') = "in_progress" ->
                   pc' = "wait" /\ waited' = NotCalled]_vars
    /\ []((surface = "mcp" /\ reply # NotCalled) =>
            /\ Returned(reply)
            /\ reply.value.status \in {"ready", "in_progress", "failed"})

\* C24 witness: the tool was asked about a run that is completed and has no
\* conclusion, and reported failed
C24_Witness ==
    /\ surface = "mcp"
    /\ last_poll = [status |-> "completed", conclusion |-> "None"]
    /\ Returned(reply)
    /\ reply.value.status = "failed"

====
